---- MODULE Spec2Model ----
(***************************************************************************)
(* Scan orchestration of the library service ("Brain"):                    *)
(*   POST /libraries/:id/scan  and the RabbitMQ connection routine.        *)
(* Source: src/services/user-service/index.js, lines 150-398.              *)
(*                                                                         *)
(* Node.js runs every continuation between two awaits to completion, so    *)
(* each action below is one such continuation: the code from one await     *)
(* (or from the arrival of the request) up to the next await or return.    *)
(***************************************************************************)
EXTENDS Integers, Sequences, FiniteSets, TLC

(* ------------------------------ bounds --------------------------------- *)

\* longest files_found sequence a worker returns
MaxFiles == 2
\* number of connectRabbitMQ attempts (the first one and the retries)
MaxAttempts == 2

\* the scan requests of one run of the model; two requests share nothing
\* but rabbitChannel, which no request writes, and the queue they append to
ScanRequests == {1}
Channels == 1..MaxAttempts

(* --------------------------- value domains ----------------------------- *)

Undefined == "undefined"
NoError == "null"

\* rows of the libraries table (id, path_on_agent, agent_tag)
LibraryRows ==
    [ id \in {1, 2} |->
        IF id = 1
        THEN [id |-> 1, path_on_agent |-> "/media/movies", agent_tag |-> "scanner-a"]
        ELSE [id |-> 2, path_on_agent |-> "/media/shows", agent_tag |-> "scanner-b"] ]

\* ids a caller may put in the URL; 3 is in no row
RequestedIds == {1, 2, 3}

Tokens == {"missing", "invalid", "valid"}

\* entries of consul.health.service's answer, as address:port of .Service
Agents == {"10.0.0.1:50051", "10.0.0.2:50051"}
ServiceLists == {<<>>} \cup {<<a>> : a \in Agents}
                \cup {s \in {<<a, b>> : a \in Agents, b \in Agents} : s[1] # s[2]}

\* FileInfo entries of a ScanResponse
FileEntries ==
    { [file_path |-> "a.mkv", file_size_bytes |-> 10, last_modified |-> 100],
      [file_path |-> "b.mkv", file_size_bytes |-> 20, last_modified |-> 200] }

RECURSIVE SeqsUpTo(_, _)
SeqsUpTo(S, n) ==
    IF n = 0 THEN {<<>>}
    ELSE LET shorter == SeqsUpTo(S, n - 1)
         IN  shorter \cup {Append(s, x) : s \in {t \in shorter : Len(t) = n - 1}, x \in S}

FileLists == SeqsUpTo(FileEntries, MaxFiles)

\* what the ScanPath callback may receive as response: a ScanResponse, with
\* or without the field files_found, or undefined
UndefinedResponse == [undefined |-> TRUE]
ResponseWithoutFiles == [files_missing |-> TRUE]
ScanResponses == [files_found : FileLists] \cup {ResponseWithoutFiles}

\* err.code of what the callback may receive as err; the last one is not a
\* gRPC status the handler names
GrpcCodes == {"DEADLINE_EXCEEDED", "UNAVAILABLE", "NOT_FOUND", "INTERNAL"}
\* err.code of a failed pool.query / consul call (a socket error), and of an
\* exception that carries no code (TypeError, amqplib IllegalOperationError)
SocketCode == "ECONNREFUSED"
NoCode == Undefined

(* ------------------------------- state --------------------------------- *)

VARIABLES
    libraries,      \* the libraries table: id -> row
    rabbitChannel,  \* let rabbitChannel (line 220): 0 is null, else a channel
    channel,        \* per channel created: its state at the client and broker
    connections,    \* set of attempts whose amqp connection is open
    connPc,         \* where connectRabbitMQ stands
    attempt,        \* number of the current connectRabbitMQ invocation
    timers,         \* number of pending setTimeout(connectRabbitMQ) timers
    queue,          \* content of the durable queue METADATA_QUEUE at the broker
    req,            \* per request: position in the handler, locals, history
    dbPc,           \* where initializeDatabase stands
    dbAttempt,      \* number of the current initializeDatabase invocation
    dbTimers,       \* number of pending setTimeout(initializeDatabase) timers
    reachable       \* the environment: whether the store / the broker answer

vars == <<libraries, rabbitChannel, channel, connections, connPc, attempt,
          timers, queue, req, dbPc, dbAttempt, dbTimers, reachable>>

\* initializeDatabase and the reachability it and connectRabbitMQ meet; the
\* scan handler and the steps of connectRabbitMQ read and write none of them
sup == <<dbPc, dbAttempt, dbTimers, reachable>>

Null == 0

NewChannel == [state |-> "none", declared |-> FALSE, inflight |-> <<>>]

NewRequest ==
    [ pc |-> "new", token |-> "none", libraryId |-> 0, rows |-> <<>>,
      status |-> 0, kind |-> "none", count |-> -1, responses |-> 0,
      storeReads |-> 0, storeErr |-> "none",
      registryCalls |-> 0, registryTag |-> "none", registryErr |-> "none",
      services |-> <<>>,
      rpcCalls |-> 0, rpcTarget |-> "none", rpcPath |-> "none",
      rpcErr |-> "none", rpcFiles |-> <<>>,
      fanoutChannel |-> "none", attempts |-> 0, undeclaredSends |-> 0,
      sent |-> <<>> ]

(* -------------------- authenticateToken, lines 238-251 ----------------- *)

AuthStatusInvalidPasses(token) ==
    IF token = "missing" THEN 401
    ELSE 0

\* the status authenticateToken answers with, or 0 when it calls next()
AuthStatus(token) ==
    IF token = "missing" THEN 401
    ELSE IF token = "invalid" THEN 403
    ELSE 0

(* ------------------ res.status(..).json(..) and catch ------------------ *)

\* one response sent to the caller; the handler returns after it
Respond(rec, status, kind, count) ==
    [rec EXCEPT !.pc = "done", !.status = status, !.kind = kind,
                !.count = count, !.responses = @ + 1]

CatchStatusNotFoundGeneric(code) ==
    IF code = "DEADLINE_EXCEEDED" THEN 504
    ELSE IF code = "UNAVAILABLE" THEN 503
    ELSE 500

\* status chosen by the catch block from err.code
CatchStatus(code) ==
    IF code = "DEADLINE_EXCEEDED" THEN 504
    ELSE IF code = "UNAVAILABLE" \/ code = "NOT_FOUND" THEN 503
    ELSE 500

\* the outcome the message of each catch branch names
CatchKind(status) ==
    IF status = 504 THEN "Timeout"
    ELSE IF status = 503 THEN "WorkerUnreachable"
    ELSE "InternalError"

CatchBlockRespondsTwice(rec, code) ==
    LET first == Respond(rec, CatchStatus(code), CatchKind(CatchStatus(code)), -1)
    IN  IF code = "DEADLINE_EXCEEDED"
        THEN Respond(first, 500, CatchKind(500), -1)
        ELSE first

CatchBlockRetries(rec, code) ==
    [rec EXCEPT !.pc = "lookup", !.storeReads = @ + 1]

\* catch (err) { ... } of the scan handler
CatchBlock(rec, code) ==
    Respond(rec, CatchStatus(code), CatchKind(CatchStatus(code)), -1)

(* -------------------------- handler, step 1 ---------------------------- *)

LibraryMissingNever(rows) == FALSE

\* const library = libResult.rows[0]; if (!library)
LibraryMissing(rows) == Len(rows) = 0

\* libResult.rows of SELECT * FROM libraries WHERE id = $1
SelectLibrary(id) ==
    IF id \in DOMAIN libraries THEN <<libraries[id]>> ELSE <<>>

\* the continuation after await pool.query: 404, or the call to Consul;
\* reading library.agent_tag of undefined raises a TypeError
AfterLookup(rec, rows) ==
    LET seen == [rec EXCEPT !.storeErr = NoError, !.rows = rows] IN
    IF LibraryMissing(rows)
    THEN Respond(seen, 404, "NotFound", -1)
    ELSE IF Len(rows) = 0
    THEN CatchBlock(seen, NoCode)
    ELSE [seen EXCEPT !.pc = "registry",
                      !.registryCalls = @ + 1,
                      !.registryTag = rows[1].agent_tag]

(* -------------------------- handler, step 2 ---------------------------- *)

NoHealthyAgentNever(services) == FALSE

\* if (services.length === 0)
NoHealthyAgent(services) == Len(services) = 0

NoAgentResponseUnavailable == [status |-> 503, kind |-> "NoHealthyWorker"]

\* res.status(404).json({ message: "Nessun agente 'sano' trovato ..." })
NoAgentResponse == [status |-> 404, kind |-> "NoHealthyWorker"]

\* the continuation after await consul.health.service: 404, or the gRPC
\* call to services[0]; services[0].Service of an empty array raises a
\* TypeError
AfterRegistry(rec, services) ==
    LET seen == [rec EXCEPT !.registryErr = NoError, !.services = services] IN
    IF NoHealthyAgent(services)
    THEN Respond(seen, NoAgentResponse.status, NoAgentResponse.kind, -1)
    ELSE IF Len(services) = 0
    THEN CatchBlock(seen, NoCode)
    ELSE [seen EXCEPT !.pc = "rpc", !.rpcCalls = @ + 1,
                     !.rpcTarget = services[1],
                     !.rpcPath = rec.rows[1].path_on_agent]

(* --------------------- handler, steps 3, 4 and 5 ----------------------- *)

ScanPathRejectsWithoutResponse(err, response) ==
    err # NoError /\ response = UndefinedResponse

\* if (err) return reject(err); of the ScanPath callback
ScanPathRejects(err, response) == err # NoError

\* scanResponse.files_found || []
FilesFound(scanResponse) ==
    IF "files_found" \in DOMAIN scanResponse THEN scanResponse.files_found
    ELSE <<>>

MessageFieldsSwapped(library, file) ==
    <<library.id, file.file_path, file.last_modified, file.file_size_bytes>>

\* the message of one file, in the field order JSON.stringify writes it
Message(library, file) ==
    <<library.id, file.file_path, file.file_size_bytes, file.last_modified>>

BrokerNotReadyNever == FALSE

\* if (!rabbitChannel)
BrokerNotReady == rabbitChannel = Null

\* rabbitChannel.sendToQueue(..) returns; on null it is a TypeError and on a
\* closed channel amqplib raises IllegalOperationError
SendReturns ==
    /\ rabbitChannel # Null
    /\ channel[rabbitChannel].state = "open"

\* the for loop over filesFound from index i on; acc counts the calls of
\* sendToQueue, collects the messages handed to the channel, and notes the
\* exception that leaves the loop
RECURSIVE FanOutLoop(_, _, _, _)
FanOutLoop(library, filesFound, i, acc) ==
    IF i > Len(filesFound) THEN acc
    ELSE IF SendReturns
    THEN FanOutLoop(library, filesFound, i + 1,
                    [acc EXCEPT !.attempts = @ + 1,
                                !.sent = Append(@, Message(library, filesFound[i]))])
    ELSE [acc EXCEPT !.attempts = @ + (IF rabbitChannel = Null THEN 0 ELSE 1),
                     !.threw = TRUE]

\* step 4: the readiness check and the loop
FanOut(library, filesFound) ==
    IF BrokerNotReady
    THEN [attempts |-> 0, sent |-> <<>>, threw |-> FALSE]
    ELSE FanOutLoop(library, filesFound, 1,
                    [attempts |-> 0, sent |-> <<>>, threw |-> FALSE])

\* what the handler saw of the shared channel when it reached step 4
ChannelSeen ==
    IF rabbitChannel = Null THEN "null" ELSE channel[rabbitChannel].state

\* the continuation after the ScanPath promise settles, up to the response
AfterRpc(rec, err, response) ==
    LET seen == [rec EXCEPT !.rpcErr = err] IN
    IF ScanPathRejects(err, response)
    THEN CatchBlock(seen, err)
    ELSE IF response = UndefinedResponse
    THEN CatchBlock(seen, NoCode)
    ELSE LET filesFound == FilesFound(response)
             out == FanOut(rec.rows[1], filesFound)
             after == [seen EXCEPT
                         !.rpcFiles = filesFound,
                         !.fanoutChannel = ChannelSeen,
                         !.attempts = out.attempts,
                         !.sent = out.sent,
                         !.undeclaredSends =
                             IF rabbitChannel # Null /\ ~channel[rabbitChannel].declared
                             THEN Len(out.sent) ELSE 0]
         IN  IF out.threw
             THEN CatchBlock(after, NoCode)
             ELSE Respond(after, 200, "Ok", Len(filesFound))

\* where the broker puts what was handed to the channel: into the queue, or
\* behind the queue.declare still in flight on that channel
ChannelAfterSend(sent) ==
    IF rabbitChannel = Null \/ sent = <<>> THEN channel
    ELSE IF channel[rabbitChannel].declared THEN channel
    ELSE [channel EXCEPT ![rabbitChannel].inflight = @ \o sent]

QueueAfterSendDeduplicated(sent) ==
    IF rabbitChannel # Null /\ channel[rabbitChannel].declared
    THEN queue \o SelectSeq(sent, LAMBDA msg : \A i \in DOMAIN queue : queue[i] # msg)
    ELSE queue

QueueAfterSend(sent) ==
    IF rabbitChannel # Null /\ channel[rabbitChannel].declared
    THEN queue \o sent
    ELSE queue

(* ------------------------------- Init ---------------------------------- *)

\* the state when the app.listen callback has run: initializeDatabase is at
\* its await (pool.query), connectRabbitMQ is at its first await
\* (amqp.connect) and no request has arrived
Init ==
    /\ libraries = LibraryRows
    /\ rabbitChannel = Null
    /\ channel = [c \in Channels |-> NewChannel]
    /\ connections = {}
    /\ connPc = "connecting"
    /\ attempt = 1
    /\ timers = 0
    /\ queue = <<>>
    /\ req = [r \in ScanRequests |-> NewRequest]
    /\ dbPc = "querying"
    /\ dbAttempt = 1
    /\ dbTimers = 0
    /\ reachable = [store |-> FALSE, broker |-> FALSE]

broker == <<rabbitChannel, channel, connections, connPc, attempt, timers>>

(* --------------------- POST /libraries/:id/scan ------------------------ *)

\* a request arrives: authenticateToken, then the handler up to await
\* pool.query
Arrive(r, token, id) ==
    /\ req[r].pc = "new"
    /\ LET rec == [req[r] EXCEPT !.token = token] IN
       req' = [req EXCEPT ![r] =
                 IF AuthStatus(token) = 401 THEN Respond(rec, 401, "Unauthorized", -1)
                 ELSE IF AuthStatus(token) = 403 THEN Respond(rec, 403, "Forbidden", -1)
                 ELSE [rec EXCEPT !.pc = "lookup", !.libraryId = id,
                                  !.storeReads = @ + 1]]
    /\ UNCHANGED <<sup, libraries, broker, queue>>

\* pool.query resolves with the rows
LookupReturns(r) ==
    /\ req[r].pc = "lookup"
    /\ req' = [req EXCEPT ![r] = AfterLookup(req[r], SelectLibrary(req[r].libraryId))]
    /\ UNCHANGED <<sup, libraries, broker, queue>>

\* pool.query rejects
LookupFails(r) ==
    /\ req[r].pc = "lookup"
    /\ req' = [req EXCEPT ![r] =
                 CatchBlock([req[r] EXCEPT !.storeErr = SocketCode], SocketCode)]
    /\ UNCHANGED <<sup, libraries, broker, queue>>

\* consul.health.service resolves with the passing instances
RegistryReturns(r, services) ==
    /\ req[r].pc = "registry"
    /\ req' = [req EXCEPT ![r] = AfterRegistry(req[r], services)]
    /\ UNCHANGED <<sup, libraries, broker, queue>>

\* consul.health.service rejects: Consul cannot be reached
RegistryFails(r) ==
    /\ req[r].pc = "registry"
    /\ req' = [req EXCEPT ![r] =
                 CatchBlock([req[r] EXCEPT !.registryErr = SocketCode], SocketCode)]
    /\ UNCHANGED <<sup, libraries, broker, queue>>

RpcReturnsResetsChannel(r, err, response) ==
    /\ req[r].pc = "rpc"
    /\ err = NoError => response # UndefinedResponse
    /\ req' = [req EXCEPT ![r] = AfterRpc(req[r], err, response)]
    /\ channel' = ChannelAfterSend(req'[r].sent)
    /\ queue' = QueueAfterSend(req'[r].sent)
    /\ rabbitChannel' = IF req'[r].fanoutChannel = "closed" /\ req'[r].status = 500
                        THEN Null ELSE rabbitChannel
    /\ UNCHANGED <<sup, libraries, connections, connPc, attempt, timers>>

\* the ScanPath callback runs with (err, response); the fan-out and the
\* response follow in the same continuation.  The two arguments are chosen
\* independently (an error may come with a response or without one); only a
\* call without error always carries a response
RpcReturns(r, err, response) ==
    /\ req[r].pc = "rpc"
    /\ err = NoError => response # UndefinedResponse
    /\ req' = [req EXCEPT ![r] = AfterRpc(req[r], err, response)]
    /\ channel' = ChannelAfterSend(req'[r].sent)
    /\ queue' = QueueAfterSend(req'[r].sent)
    /\ UNCHANGED <<sup, libraries, rabbitChannel, connections, connPc, attempt, timers>>

(* -------------------------- connectRabbitMQ ---------------------------- *)

ScheduleRetryNever ==
    /\ connPc' = "waiting"
    /\ timers' = timers

\* catch (err) { setTimeout(connectRabbitMQ, 5000) }
ScheduleRetry ==
    /\ connPc' = "waiting"
    /\ timers' = timers + 1

\* amqp.connect resolves; connection.createChannel is called
ConnectReturns ==
    /\ connPc = "connecting"
    /\ connections' = connections \cup {attempt}
    /\ connPc' = "creatingChannel"
    /\ UNCHANGED <<sup, libraries, rabbitChannel, channel, attempt, timers, queue, req>>

\* amqp.connect rejects
ConnectFails ==
    /\ connPc = "connecting"
    /\ ScheduleRetry
    /\ UNCHANGED <<sup, libraries, rabbitChannel, channel, connections, attempt, queue, req>>

\* createChannel resolves: rabbitChannel is assigned, assertQueue is called
CreateChannelReturns ==
    /\ connPc = "creatingChannel"
    /\ attempt \in connections
    /\ rabbitChannel' = attempt
    /\ channel' = [channel EXCEPT ![attempt].state = "open"]
    /\ connPc' = "asserting"
    /\ UNCHANGED <<sup, libraries, connections, attempt, timers, queue, req>>

\* createChannel rejects
CreateChannelFails ==
    /\ connPc = "creatingChannel"
    /\ ScheduleRetry
    /\ UNCHANGED <<sup, libraries, rabbitChannel, channel, connections, attempt, queue, req>>

\* assertQueue resolves: the queue is declared, and the broker handles what
\* was sent on the channel behind the declaration
AssertQueueReturns ==
    /\ connPc = "asserting"
    /\ channel[attempt].state = "open"
    /\ channel' = [channel EXCEPT ![attempt].declared = TRUE,
                                  ![attempt].inflight = <<>>]
    /\ queue' = queue \o channel[attempt].inflight
    /\ connPc' = "returned"
    /\ UNCHANGED <<sup, libraries, rabbitChannel, connections, attempt, timers, req>>

\* assertQueue rejects: the broker has closed the channel, what was sent
\* behind the declaration is discarded
AssertQueueFails ==
    /\ connPc = "asserting"
    /\ channel' = [channel EXCEPT ![attempt].state = "closed",
                                  ![attempt].inflight = <<>>]
    /\ ScheduleRetry
    /\ UNCHANGED <<sup, libraries, rabbitChannel, connections, attempt, queue, req>>

\* the timer fires: connectRabbitMQ runs again up to await amqp.connect
RetryTimerFires ==
    /\ connPc = "waiting"
    /\ timers > 0
    /\ attempt < MaxAttempts
    /\ timers' = timers - 1
    /\ attempt' = attempt + 1
    /\ connPc' = "connecting"
    /\ UNCHANGED <<sup, libraries, rabbitChannel, channel, connections, queue, req>>

\* the broker closes connection c (a shutdown or an operator's close): its
\* channel is closed with it; no handler of the service is registered for it
BrokerCloses(c) ==
    /\ c \in connections
    /\ connections' = connections \ {c}
    /\ channel' = [channel EXCEPT ![c].state =
                       IF @ = "open" THEN "closed" ELSE @,
                                  ![c].inflight = <<>>]
    /\ UNCHANGED <<sup, libraries, rabbitChannel, connPc, attempt, timers, queue, req>>

(* ------------------------------- Next ---------------------------------- *)

Next ==
    \/ \E r \in DOMAIN req, token \in Tokens, id \in RequestedIds : Arrive(r, token, id)
    \/ \E r \in DOMAIN req : LookupReturns(r)
    \/ \E r \in DOMAIN req : LookupFails(r)
    \/ \E r \in DOMAIN req, services \in ServiceLists : RegistryReturns(r, services)
    \/ \E r \in DOMAIN req : RegistryFails(r)
    \/ \E r \in DOMAIN req, err \in GrpcCodes \cup {NoError},
          response \in ScanResponses \cup {UndefinedResponse} : RpcReturns(r, err, response)
    \/ ConnectReturns
    \/ ConnectFails
    \/ CreateChannelReturns
    \/ CreateChannelFails
    \/ AssertQueueReturns
    \/ AssertQueueFails
    \/ RetryTimerFires
    \/ \E c \in Channels : BrokerCloses(c)

Spec == Init /\ [][Next]_vars

(* ------------- initializeDatabase and the connection loops ------------- *)

ScheduleDbRetryNever ==
    /\ dbPc' = "waiting"
    /\ dbTimers' = dbTimers

\* catch (err) { setTimeout(initializeDatabase, 5000) }
ScheduleDbRetry ==
    /\ dbPc' = "waiting"
    /\ dbTimers' = dbTimers + 1

\* await pool.query(CREATE TABLE IF NOT EXISTS libraries ...) resolves
DbQueryReturns ==
    /\ dbPc = "querying"
    /\ reachable.store
    /\ dbPc' = "ready"
    /\ UNCHANGED <<dbAttempt, dbTimers, reachable, libraries, broker, queue, req>>

\* await pool.query rejects; the store fails at most MaxAttempts - 1 times
DbQueryFails ==
    /\ dbPc = "querying"
    /\ ~reachable.store
    /\ dbAttempt < MaxAttempts
    /\ ScheduleDbRetry
    /\ UNCHANGED <<dbAttempt, reachable, libraries, broker, queue, req>>

\* the timer fires: initializeDatabase runs again up to await pool.query
DbRetryTimerFires ==
    /\ dbPc = "waiting"
    /\ dbTimers > 0
    /\ dbTimers' = dbTimers - 1
    /\ dbAttempt' = dbAttempt + 1
    /\ dbPc' = "querying"
    /\ UNCHANGED <<reachable, libraries, broker, queue, req>>

\* the environment: the store or the broker starts or stops answering
ReachabilityChanges(what) ==
    /\ reachable' = [reachable EXCEPT ![what] = ~@]
    /\ UNCHANGED <<dbPc, dbAttempt, dbTimers, libraries, broker, queue, req>>

\* the steps of connectRabbitMQ against a broker that answers or does not;
\* the broker fails at most MaxAttempts - 1 attempts
BrokerAnswers(step) == reachable.broker /\ step

BrokerRefuses(step) == ~reachable.broker /\ attempt < MaxAttempts /\ step

\* the broker drops a connection that connectRabbitMQ had established
EstablishedConnectionCloses(c) ==
    /\ connPc = "returned"
    /\ ~reachable.broker
    /\ BrokerCloses(c)

SupervisorNext ==
    \/ DbQueryReturns
    \/ DbQueryFails
    \/ DbRetryTimerFires
    \/ \E what \in {"store", "broker"} : ReachabilityChanges(what)
    \/ BrokerAnswers(ConnectReturns)
    \/ BrokerRefuses(ConnectFails)
    \/ BrokerAnswers(CreateChannelReturns)
    \/ BrokerRefuses(CreateChannelFails)
    \/ BrokerAnswers(AssertQueueReturns)
    \/ BrokerRefuses(AssertQueueFails)
    \/ RetryTimerFires
    \/ \E c \in Channels : EstablishedConnectionCloses(c)

\* timers fire and pending I/O completes: every step of the two loops that
\* stays possible is taken; the environment is under no obligation
SupervisorFairness ==
    /\ WF_vars(DbQueryReturns)
    /\ WF_vars(DbRetryTimerFires)
    /\ WF_vars(BrokerAnswers(ConnectReturns))
    /\ WF_vars(BrokerAnswers(CreateChannelReturns))
    /\ WF_vars(BrokerAnswers(AssertQueueReturns))
    /\ WF_vars(RetryTimerFires)

\* the two connection loops alone, from process start, with no request
SupervisorSpec == Init /\ [][SupervisorNext]_vars /\ SupervisorFairness

(* ------------------------ two concurrent scans ------------------------- *)

PairRequests == {1, 2}

\* as Init, with two requests to come
PairInit ==
    /\ libraries = LibraryRows
    /\ rabbitChannel = Null
    /\ channel = [c \in Channels |-> NewChannel]
    /\ connections = {}
    /\ connPc = "connecting"
    /\ attempt = 1
    /\ timers = 0
    /\ queue = <<>>
    /\ req = [r \in PairRequests |-> NewRequest]
    /\ dbPc = "querying"
    /\ dbAttempt = 1
    /\ dbTimers = 0
    /\ reachable = [store |-> FALSE, broker |-> FALSE]

\* two authenticated scans of existing libraries, interleaved with each other
\* and with a connectRabbitMQ that meets no failure but a later disconnect;
\* the worker answers with files or with one kind of error
PairNext ==
    \/ \E r \in DOMAIN req, id \in DOMAIN LibraryRows : Arrive(r, "valid", id)
    \/ \E r \in DOMAIN req : LookupReturns(r)
    \/ \E r \in DOMAIN req, a \in Agents : RegistryReturns(r, <<a>>)
    \/ \E r \in DOMAIN req, files \in FileLists :
          RpcReturns(r, NoError, [files_found |-> files])
    \/ \E r \in DOMAIN req : RpcReturns(r, "UNAVAILABLE", UndefinedResponse)
    \/ ConnectReturns
    \/ CreateChannelReturns
    \/ AssertQueueReturns
    \/ \E c \in Channels : BrokerCloses(c)

PairSpec == PairInit /\ [][PairNext]_vars

(* ------------------------- reading the history ------------------------- *)

Done(r) == req[r].pc = "done"

\* the ScanPath callback of r ran with err = null
RpcSucceeded(r) == req[r].rpcErr = NoError

\* the ScanPath callback of r ran with an error
RpcFailed(r) == req[r].rpcErr \in GrpcCodes

\* number of files the successful RPC of r returned
FilesReturned(r) == Len(req[r].rpcFiles)

\* the handler of r ran (authentication passed) and asked for an id that is
\* in no row of the table
UnknownLibrary(r) ==
    /\ req[r].pc # "new"
    /\ req[r].token = "valid"
    /\ req[r].libraryId \notin DOMAIN libraries

\* Consul answered r with no passing instance
RegistryEmpty(r) ==
    /\ req[r].registryErr = NoError
    /\ req[r].services = <<>>

\* every message at the broker was handed to the channel by some request
AtBroker ==
    {queue[i] : i \in DOMAIN queue}
        \cup UNION {{channel[c].inflight[i] : i \in DOMAIN channel[c].inflight} :
                    c \in Channels}

HandedOver == UNION {{req[r].sent[i] : i \in DOMAIN req[r].sent} : r \in DOMAIN req}

(* ------------------------------ claims --------------------------------- *)

\* C1: a request whose RPC succeeded with k files makes exactly k publish
\* attempts and answers 200 with files_found_count = k, whatever each publish
\* does and whatever the readiness of the broker.  The count of attempts is
\* stated for the requests that found rabbitChannel non-null; what happens
\* when it is null is C8's.
C1_ExactlyKAttemptsAndOk ==
    \A r \in DOMAIN req :
        (Done(r) /\ RpcSucceeded(r)) =>
            /\ req[r].status = 200
            /\ req[r].count = FilesReturned(r)
            /\ req[r].fanoutChannel # "null" => req[r].attempts = FilesReturned(r)

\* C2: a request whose RPC has not returned successfully (it failed, or it
\* has not returned yet) has made no publish attempt and handed no message to
\* the channel, and the broker holds only messages some request handed over.
C2_NoPublishWithoutRpcSuccess ==
    /\ \A r \in DOMAIN req :
          ~RpcSucceeded(r) => (req[r].attempts = 0 /\ req[r].sent = <<>>)
    /\ AtBroker \subseteq HandedOver

C2_Witness ==
    \E r \in DOMAIN req :
        /\ Done(r)
        /\ RpcFailed(r)
        /\ rabbitChannel # Null
        /\ channel[rabbitChannel].state = "open"
        /\ channel[rabbitChannel].declared

\* C3 as stated: every request for an id in no row ends with 404 NotFound,
\* without a registry lookup, an RPC or a publish.
C3_UnknownIdAlways404 ==
    \A r \in DOMAIN req :
        (Done(r) /\ UnknownLibrary(r)) =>
            /\ req[r].status = 404
            /\ req[r].kind = "NotFound"
            /\ req[r].registryCalls = 0
            /\ req[r].rpcCalls = 0
            /\ req[r].attempts = 0

\* C3 amended: a request for an id in no row never contacts the registry,
\* invokes no RPC and publishes nothing; it ends with 404 NotFound when the
\* read of the record store returns, and with 500 when that read fails.
C3_UnknownIdNoRegistry ==
    \A r \in DOMAIN req :
        UnknownLibrary(r) =>
            /\ req[r].registryCalls = 0
            /\ req[r].rpcCalls = 0
            /\ req[r].attempts = 0
            /\ req[r].sent = <<>>
            /\ (Done(r) /\ req[r].storeErr = NoError) =>
                   (req[r].status = 404 /\ req[r].kind = "NotFound")
            /\ (Done(r) /\ req[r].storeErr = SocketCode) => req[r].status = 500

C3_Witness ==
    \E r \in DOMAIN req :
        /\ Done(r)
        /\ UnknownLibrary(r)
        /\ req[r].storeReads = 1
        /\ req[r].storeErr = NoError
        /\ req[r].status = 404

\* C4: a request the registry answers with no healthy endpoint ends in the
\* NoHealthyWorker failure, with no RPC invoked and nothing published.
C4_EmptyRegistryNoRpc ==
    \A r \in DOMAIN req :
        (Done(r) /\ RegistryEmpty(r)) =>
            /\ req[r].kind = "NoHealthyWorker"
            /\ req[r].status # 200
            /\ req[r].rpcCalls = 0
            /\ req[r].attempts = 0
            /\ req[r].sent = <<>>

C4_Witness ==
    \E r \in DOMAIN req :
        /\ Done(r)
        /\ RegistryEmpty(r)
        /\ req[r].registryCalls = 1
        /\ req[r].registryTag = "scanner-b"

\* C5 as stated: with no healthy endpoint the response status is 503.
C5_EmptyRegistryIs503 ==
    \A r \in DOMAIN req :
        (Done(r) /\ RegistryEmpty(r)) => req[r].status = 503

\* C5 amended: with no healthy endpoint the response status is 404.
C5_EmptyRegistryIs404 ==
    \A r \in DOMAIN req :
        (Done(r) /\ RegistryEmpty(r)) => req[r].status = 404

C5_Witness ==
    \E r \in DOMAIN req :
        /\ Done(r)
        /\ RegistryEmpty(r)
        /\ req[r].responses = 1
        /\ req[r].registryTag = "scanner-a"

\* C6: a request whose registry lookup fails with a transport error answers
\* 503, with no RPC invoked and nothing published.
C6_RegistryUnreachableIs503 ==
    \A r \in DOMAIN req :
        (Done(r) /\ req[r].registryErr = SocketCode) =>
            /\ req[r].status = 503
            /\ req[r].rpcCalls = 0
            /\ req[r].attempts = 0

\* C7 as stated: an RPC that fails with DEADLINE_EXCEEDED ends the request
\* with 504 Timeout, one that fails with UNAVAILABLE with 503
\* WorkerUnreachable, one that fails with any other error with 500
\* InternalError; none of them with 200.
C7_OnlyUnavailableIs503 ==
    \A r \in DOMAIN req :
        (Done(r) /\ RpcFailed(r)) =>
            /\ req[r].status # 200
            /\ req[r].rpcErr = "DEADLINE_EXCEEDED" =>
                   (req[r].status = 504 /\ req[r].kind = "Timeout")
            /\ req[r].rpcErr = "UNAVAILABLE" =>
                   (req[r].status = 503 /\ req[r].kind = "WorkerUnreachable")
            /\ req[r].rpcErr \notin {"DEADLINE_EXCEEDED", "UNAVAILABLE"} =>
                   (req[r].status = 500 /\ req[r].kind = "InternalError")

\* C7 amended: an RPC that fails with DEADLINE_EXCEEDED ends the request with
\* 504 Timeout; one that fails with UNAVAILABLE or with NOT_FOUND with 503
\* WorkerUnreachable; one that fails with any other error with 500
\* InternalError; none of them with 200.
C7_RpcErrorMapping ==
    \A r \in DOMAIN req :
        (Done(r) /\ RpcFailed(r)) =>
            /\ req[r].status # 200
            /\ req[r].rpcErr = "DEADLINE_EXCEEDED" =>
                   (req[r].status = 504 /\ req[r].kind = "Timeout")
            /\ req[r].rpcErr \in {"UNAVAILABLE", "NOT_FOUND"} =>
                   (req[r].status = 503 /\ req[r].kind = "WorkerUnreachable")
            /\ req[r].rpcErr \notin {"DEADLINE_EXCEEDED", "UNAVAILABLE", "NOT_FOUND"} =>
                   (req[r].status = 500 /\ req[r].kind = "InternalError")

C7_Witness ==
    \E r \in DOMAIN req :
        /\ Done(r)
        /\ req[r].rpcErr = "NOT_FOUND"
        /\ req[r].rpcCalls = 1
        /\ req[r].status = 503

\* C8 as stated: when rabbitChannel is null at the fan-out of a scan whose
\* RPC returned k files, k publish attempts are made and fail one by one,
\* none of the k messages reaches the queue, and the request answers 200 with
\* files_found_count = k.
C8_KAttemptsFailOneByOne ==
    \A r \in DOMAIN req :
        (Done(r) /\ RpcSucceeded(r) /\ req[r].fanoutChannel = "null") =>
            /\ req[r].attempts = FilesReturned(r)
            /\ req[r].status = 200
            /\ req[r].count = FilesReturned(r)
            /\ req[r].sent = <<>>

\* C8 amended: when rabbitChannel is null at the fan-out of a scan whose RPC
\* returned k files, the loop is skipped: no publish attempt is made, nothing
\* of the request reaches the broker, and the request still answers 200 with
\* files_found_count = k.
C8_BrokerNotReadyStillOk ==
    \A r \in DOMAIN req :
        (Done(r) /\ RpcSucceeded(r) /\ req[r].fanoutChannel = "null") =>
            /\ req[r].attempts = 0
            /\ req[r].status = 200
            /\ req[r].count = FilesReturned(r)
            /\ req[r].responses = 1
            /\ req[r].sent = <<>>
            /\ AtBroker \subseteq UNION {{req[q].sent[i] : i \in DOMAIN req[q].sent} :
                                         q \in DOMAIN req \ {r}}

C8_Witness ==
    \E r \in DOMAIN req :
        /\ Done(r)
        /\ RpcSucceeded(r)
        /\ req[r].fanoutChannel = "null"
        /\ FilesReturned(r) = MaxFiles
        /\ req[r].count = MaxFiles

\* C9: when the send of one file raises (the shared channel is closed), the
\* loop goes on: a publish is attempted for every file, and the request ends
\* with 200 and files_found_count = k.
C9_SendFailureDoesNotAbort ==
    \A r \in DOMAIN req :
        (Done(r) /\ RpcSucceeded(r) /\ req[r].fanoutChannel = "closed") =>
            /\ req[r].attempts = FilesReturned(r)
            /\ req[r].status = 200
            /\ req[r].count = FilesReturned(r)

\* C10: no message is handed to a channel whose assertQueue has not resolved.
C10_NoPublishBeforeQueueDeclared ==
    \A r \in DOMAIN req : req[r].undeclaredSends = 0

\* connectRabbitMQ has returned without an exception: rabbitChannel is the
\* channel of this attempt and its queue is declared
BrokerEstablished ==
    /\ connPc = "returned"
    /\ rabbitChannel = attempt
    /\ channel[attempt].declared

\* a failed attempt of either loop has exactly one timer pending, and no
\* timer is pending otherwise
OneRetryPending ==
    /\ timers \in {0, 1}
    /\ dbTimers \in {0, 1}
    /\ connPc = "waiting" <=> timers = 1
    /\ dbPc = "waiting" <=> dbTimers = 1

\* C11: the connection loops never give up: after every failed attempt
\* exactly one further attempt is scheduled; if the broker from some time on
\* always answers, connectRabbitMQ eventually returns with the queue
\* declared, and if the store from some time on always answers,
\* initializeDatabase eventually succeeds, each whatever the other does.
C11_SupervisorNeverGivesUp ==
    /\ []OneRetryPending
    /\ (<>[]reachable.broker) => <>BrokerEstablished
    /\ (<>[]reachable.store) => <>(dbPc = "ready")

\* the broker is established at the second attempt while the store still
\* fails
C11_Witness ==
    /\ BrokerEstablished
    /\ attempt = 2
    /\ dbPc = "waiting"
    /\ ~reachable.store

\* C12: when an established broker connection is lost, readiness becomes
\* false and a reconnect is under way: no channel whose queue was declared
\* is closed while rabbitChannel still holds it or while connectRabbitMQ
\* rests after its return.
C12_ReconnectAfterDisconnect ==
    \A c \in Channels :
        (channel[c].declared /\ channel[c].state = "closed") =>
            (rabbitChannel # c /\ connPc # "returned")

\* C13: a request without token is answered 401 and one with an invalid
\* token 403, with no record-store read, registry lookup, RPC or publish.
C13_RejectedBeforeOrchestration ==
    \A r \in DOMAIN req :
        /\ req[r].token = "missing" => req[r].status = 401
        /\ req[r].token = "invalid" => req[r].status = 403
        /\ req[r].token \in {"missing", "invalid"} =>
            /\ Done(r)
            /\ req[r].responses = 1
            /\ req[r].storeReads = 0
            /\ req[r].registryCalls = 0
            /\ req[r].rpcCalls = 0
            /\ req[r].attempts = 0
            /\ req[r].sent = <<>>

C13_Witness ==
    \E r \in DOMAIN req :
        /\ req[r].token = "invalid"
        /\ req[r].status = 403
        /\ rabbitChannel # Null
        /\ channel[rabbitChannel].state = "open"

\* the calls a request has made, by the place the handler has reached
CallsInOrder(r) ==
    /\ req[r].storeReads <= 1
    /\ req[r].registryCalls <= 1
    /\ req[r].rpcCalls <= 1
    /\ req[r].attempts <= Len(req[r].rpcFiles)
    /\ req[r].pc = "new" => req[r].storeReads = 0
    /\ req[r].pc = "lookup" => (req[r].storeReads = 1 /\ req[r].registryCalls = 0)
    /\ req[r].pc = "registry" => (req[r].registryCalls = 1 /\ req[r].rpcCalls = 0)
    /\ req[r].pc = "rpc" => (req[r].rpcCalls = 1 /\ req[r].attempts = 0)
    /\ req[r].registryCalls = 1 => (req[r].storeReads = 1 /\ req[r].storeErr = NoError)
    /\ req[r].rpcCalls = 1 => (req[r].registryCalls = 1 /\ req[r].registryErr = NoError)
    /\ req[r].attempts > 0 => (req[r].rpcCalls = 1 /\ req[r].rpcErr = NoError)

\* the handler only moves forward, one stage at a time, or to the response
StageOrder ==
    { <<"new", "lookup">>, <<"lookup", "registry">>, <<"registry", "rpc">>,
      <<"new", "done">>, <<"lookup", "done">>, <<"registry", "done">>,
      <<"rpc", "done">> }

\* C14: nothing in a scan is retried: at most one record-store read, one
\* registry lookup, one RPC and one publish attempt per returned file, and
\* the stages follow each other in the order lookup, registry, RPC, fan-out,
\* response.
C14_NothingRetried ==
    /\ [](\A r \in DOMAIN req : CallsInOrder(r))
    /\ [][\A r \in DOMAIN req :
            req'[r].pc # req[r].pc => <<req[r].pc, req'[r].pc>> \in StageOrder]_vars

C14_Witness ==
    \E r \in DOMAIN req :
        /\ Done(r)
        /\ req[r].storeReads = 1
        /\ req[r].registryCalls = 1
        /\ req[r].rpcCalls = 1
        /\ req[r].attempts = MaxFiles
        /\ req[r].status = 200

\* the messages the files returned to a request call for, in their order
ExpectedMessages(rec) ==
    [ i \in 1..Len(rec.rpcFiles) |->
        << libraries[rec.libraryId].id, rec.rpcFiles[i].file_path,
           rec.rpcFiles[i].file_size_bytes, rec.rpcFiles[i].last_modified >> ]

\* C15: a successful scan that finds the channel open hands over one message
\* per returned file, in the order returned, each with the id of the
\* requested library and the path, size and modification time of the file;
\* on a channel whose queue is declared these messages are appended to the
\* queue as they are; the RPC went to the first endpoint of the registry's
\* answer, with the library's path_on_agent as path.
C15_MessagesFollowFiles ==
    /\ [](\A r \in DOMAIN req :
            /\ (Done(r) /\ RpcSucceeded(r) /\ req[r].fanoutChannel = "open") =>
                   (req[r].status = 200 /\ req[r].sent = ExpectedMessages(req[r]))
            /\ req[r].rpcCalls = 1 =>
                   /\ req[r].rpcTarget = Head(req[r].services)
                   /\ req[r].rpcPath = libraries[req[r].libraryId].path_on_agent)
    /\ [][\A r \in DOMAIN req :
            ( /\ req[r].pc = "rpc"
              /\ req'[r].status = 200
              /\ rabbitChannel # Null
              /\ channel[rabbitChannel].state = "open"
              /\ channel[rabbitChannel].declared )
            => queue' = queue \o ExpectedMessages(req'[r])]_vars

C15_Witness ==
    \E r \in DOMAIN req :
        /\ Done(r)
        /\ req[r].status = 200
        /\ req[r].undeclaredSends = 0
        /\ Len(req[r].services) = 2
        /\ Len(req[r].rpcFiles) = 2
        /\ req[r].rpcFiles[1] # req[r].rpcFiles[2]
        /\ queue = req[r].sent

\* what a request that ran alone would have answered and handed over, given
\* what its RPC returned and the channel it found at its fan-out
AloneOutcome(rec) ==
    IF rec.rpcErr \in GrpcCodes
    THEN [status |-> CatchStatus(rec.rpcErr), count |-> -1, sent |-> <<>>]
    ELSE IF rec.fanoutChannel = "open"
    THEN [status |-> 200, count |-> Len(rec.rpcFiles), sent |-> ExpectedMessages(rec)]
    ELSE IF rec.fanoutChannel = "null" \/ rec.rpcFiles = <<>>
    THEN [status |-> 200, count |-> Len(rec.rpcFiles), sent |-> <<>>]
    ELSE [status |-> 500, count |-> -1, sent |-> <<>>]

RECURSIVE SentTotal(_)
SentTotal(rs) ==
    IF rs = {} THEN 0
    ELSE LET r == CHOOSE x \in rs : TRUE
         IN  Len(req[r].sent) + SentTotal(rs \ {r})

\* C16: concurrent scans do not interfere: a step changes the record of one
\* request only; every request that went through its RPC ends as it would
\* have alone; on a declared channel the fan-out of a request appends all its
\* messages to the queue whatever the queue holds, so that the queue holds
\* k1 + k2 messages after two such scans, also of the same library.
C16_ConcurrentScansIndependent ==
    /\ [](\A r \in DOMAIN req :
            (Done(r) /\ req[r].rpcCalls = 1) =>
                /\ req[r].status = AloneOutcome(req[r]).status
                /\ req[r].count = AloneOutcome(req[r]).count
                /\ req[r].sent = AloneOutcome(req[r]).sent)
    /\ []((\A r \in DOMAIN req : req[r].undeclaredSends = 0)
            => Len(queue) = SentTotal(DOMAIN req))
    /\ [][\A r \in DOMAIN req :
            req'[r] # req[r] =>
                /\ \A q \in DOMAIN req \ {r} : req'[q] = req[q]
                /\ (rabbitChannel # Null /\ channel[rabbitChannel].declared)
                       => queue' = queue \o req'[r].sent]_vars

\* two scans of the same library, each returning the same two files, both
\* answered 200, four messages in the queue
C16_Witness ==
    /\ req[1].status = 200
    /\ req[2].status = 200
    /\ req[1].libraryId = req[2].libraryId
    /\ Len(req[1].rpcFiles) = 2
    /\ req[1].rpcFiles = req[2].rpcFiles
    /\ req[1].sent = req[2].sent
    /\ Len(queue) = 4

\* C17: the scan handler never writes the readiness variable or the library
\* records: a step of a request leaves rabbitChannel, the state of every
\* channel, the position of connectRabbitMQ and the libraries as they were;
\* rabbitChannel is written only by connectRabbitMQ, when createChannel
\* resolves; the library records stay as created.
C17_HandlerLeavesReadinessAndLibraries ==
    /\ [](libraries = LibraryRows)
    /\ [][req' # req =>
            /\ rabbitChannel' = rabbitChannel
            /\ libraries' = libraries
            /\ connPc' = connPc /\ connections' = connections
            /\ \A c \in Channels : /\ channel'[c].state = channel[c].state
                                   /\ channel'[c].declared = channel[c].declared]_vars
    /\ [][rabbitChannel' # rabbitChannel =>
            /\ req' = req
            /\ connPc = "creatingChannel" /\ connPc' = "asserting"]_vars

\* a fan-out has failed on a closed channel, and rabbitChannel still holds it
C17_Witness ==
    \E r \in DOMAIN req :
        /\ Done(r) /\ req[r].status = 500
        /\ req[r].fanoutChannel = "closed"
        /\ rabbitChannel # Null /\ channel[rabbitChannel].state = "closed"

\* r is waiting for an external call, and the call can return
AwaitedCallCanReturn(r) ==
    /\ req[r].pc = "lookup" => ENABLED (LookupReturns(r) \/ LookupFails(r))
    /\ req[r].pc = "registry" =>
           ENABLED ((\E services \in ServiceLists : RegistryReturns(r, services))
                    \/ RegistryFails(r))
    /\ req[r].pc = "rpc" =>
           ENABLED (\E err \in {NoError} \cup GrpcCodes, response \in ScanResponses :
                        RpcReturns(r, err, response))

\* C18: every request sends exactly one response: none while it is waiting
\* for a call, one when it is done; a request that is not done is at one of
\* the three awaits, from which the return of the call takes it on; the
\* return of a call moves it to the next stage or to the response; after the
\* response nothing of the request changes.
C18_ExactlyOneResponse ==
    /\ [](\A r \in DOMAIN req :
            /\ req[r].pc \in {"new", "lookup", "registry", "rpc", "done"}
            /\ Done(r) => req[r].responses = 1
            /\ ~Done(r) => req[r].responses = 0
            /\ AwaitedCallCanReturn(r))
    /\ [][\A r \in DOMAIN req :
            /\ Done(r) => req'[r] = req[r]
            /\ req'[r] # req[r] =>
                   /\ <<req[r].pc, req'[r].pc>> \in StageOrder
                   /\ req'[r].responses = IF req'[r].pc = "done" THEN 1 ELSE 0]_vars

\* an authenticated request has gone through every stage and the error
\* handler: its fan-out threw, the handler answered 500, once
C18_Witness ==
    \E r \in DOMAIN req :
        /\ Done(r) /\ req[r].token = "valid"
        /\ req[r].rpcCalls = 1 /\ req[r].attempts = 1
        /\ req[r].status = 500 /\ req[r].responses = 1

\* C19: connectRabbitMQ holds at most one open connection and one pending
\* timer, and while a new attempt is scheduled or running rabbitChannel does
\* not hold a channel whose queue was not declared.
C19_OneConnectionOneTimer ==
    /\ Cardinality(connections) <= 1
    /\ timers <= 1
    /\ (connPc \in {"waiting", "connecting"} /\ rabbitChannel # Null)
           => channel[rabbitChannel].declared

====
